---- MODULE Spec2Model ----
(***************************************************************************)
(* The two simulator handlers of batsim_py/simulator.py:                   *)
(* GridSimulatorHandler (the self-contained handle) and                    *)
(* BatsimSimulatorHandler (the remote handle).  One handler object is      *)
(* constructed (variable handle) and driven by a sequence of calls.        *)
(* Times are kept in ticks of 1/Ticks second so that math.floor and the    *)
(* 0.0009 s offset of call_me_later are computed, not assumed.             *)
(***************************************************************************)
EXTENDS Integers, Sequences, FiniteSets, TLC

VARIABLES
    handle,           \* which class was constructed: "Grid" or "Batsim"
    policy,           \* the policy code that drives it: "jobs" or "power"
    current_time,     \* __current_time (ticks)
    callbacks,        \* __callbacks: event type -> list of handlers
    events,           \* Grid: __events, SortedList keyed by timestamp
    profiles,         \* Grid: __profiles, profile name -> profile
    submitter_ended,  \* Grid: __submitter_ended
    platform,         \* __platform: "None" or "Platform"
    is_running,       \* Grid: _is_running
    jobs,             \* Grid: __jobs, job id -> job
    requests,         \* Batsim: __requests, SortedList keyed by timestamp
    simulator,        \* Batsim: __simulator, "None" or "Popen"
    network,          \* Batsim: the channel: "new", "bound" or "closed"
    dispatched,       \* events for which the callback loop ran, last call
    calls,            \* callback invocations <<handler, timestamp, data>>, last call
    wire,             \* transport operations of the last call, in order
    last,             \* the last call: its name, arguments and outcome
    run               \* history of the current run, kept for the properties

vars == <<handle, policy, current_time, callbacks, events, profiles, submitter_ended,
          platform, is_running, jobs, requests, simulator, network,
          dispatched, calls, wire, last, run>>

----------------------------------------------------------------------------
(* Bounds of the model *)

MaxTime == 2
MaxQueue == 2
MaxCpu == 3
MaxWalltime == 1
MaxCallbacks == 2

(* Resolution of time: 0.0009 s is 9 ticks of 1/10000 s *)
Ticks == 10000
CallMeLaterOffset == 9

----------------------------------------------------------------------------
(* Values *)

EventType == {"SIMULATION_BEGINS", "SIMULATION_ENDS", "JOB_SUBMITTED",
              "JOB_STARTED", "JOB_COMPLETED", "JOB_KILLED", "REQUESTED_CALL",
              "RESOURCE_POWER_STATE_CHANGED", "NOTIFY"}

JobIds == {"j1"}
ProfileNames == {"p"}
UserHandlers == <<"h1", "h2", "h3", "h4">>
CallbackTypes == {"JOB_COMPLETED"}

NoJob == [profile |-> "", res |-> 0, walltime |-> 0]

(* math.floor of a time in ticks, in seconds; \div rounds towards minus
   infinity *)
floor(x) == x \div Ticks

(* a number of seconds as a time in ticks *)
Sec(s) == s * Ticks

(* the current_time property of both handlers *)
CurrentTime == floor(current_time)

(* int(n / d) of Python: the quotient truncated towards zero *)
int(n, d) ==
    IF (n >= 0 /\ d > 0) \/ (n <= 0 /\ d < 0)
    THEN (IF n >= 0 THEN n ELSE -n) \div (IF d >= 0 THEN d ELSE -d)
    ELSE -((IF n >= 0 THEN n ELSE -n) \div (IF d >= 0 THEN d ELSE -d))

min(a, b) == IF b < a THEN b ELSE a

----------------------------------------------------------------------------
(* The platform read from the platform file: two nodes, three resources.
   Power states of every node: 0 computation, 1 sleep, 2 switching off,
   3 switching on.  A speed is the fraction num/den. *)

ResourceIds == {0, 1, 2}
NodeIds == {0, 1}

ResourceParent(r) == IF r = 2 THEN 1 ELSE 0
ResourceSpeed(r) == IF r = 0 THEN 1 ELSE 2
NodeResources(n) == {r \in ResourceIds : ResourceParent(r) = n}

PowerStateIds == {0, 1, 2, 3}
PowerStateType(ps) ==
    CASE ps = 0 -> "computation"
      [] ps = 1 -> "sleep"
      [] ps = 2 -> "switching_off"
      [] ps = 3 -> "switching_on"

(* node 0 switches off in 2 s (speed 1/2) and on in 1 s; node 1 has
   transition speeds above 1, which int(1/speed) truncates to 0 s *)
PowerStateSpeed(n, ps) ==
    CASE ps = 2 -> IF n = 0 THEN [num |-> 1, den |-> 2] ELSE [num |-> 2, den |-> 1]
      [] ps = 3 -> IF n = 0 THEN [num |-> 1, den |-> 1] ELSE [num |-> 3, den |-> 2]
      [] OTHER -> [num |-> 1, den |-> 1]

----------------------------------------------------------------------------
(* Events and requests.  Every payload has the same fields so that any two
   can be compared. *)

Data(job_ids, alloc, info, pstate, job) ==
    [job_ids |-> job_ids, alloc |-> alloc, info |-> info,
     pstate |-> pstate, job |-> job, at |-> -1]

NoData == Data(<<>>, {}, "", -1, NoJob)

Event(type, timestamp, data) ==
    [type |-> type, timestamp |-> timestamp, data |-> data]

SimulationBeginsEvent(t) == Event("SIMULATION_BEGINS", Sec(t), NoData)
SimulationEndsEvent(t) == Event("SIMULATION_ENDS", Sec(t), NoData)
JobSubmittedEvent(t, id, profile, res, walltime) ==
    Event("JOB_SUBMITTED", Sec(t),
          Data(<<id>>, {}, "", -1,
               [profile |-> profile, res |-> res, walltime |-> walltime]))
JobStartedEvent(t, job_id, alloc) ==
    Event("JOB_STARTED", Sec(t), Data(<<job_id>>, alloc, "", -1, NoJob))
JobCompletedEvent(t, job_id, job_state, alloc) ==
    Event("JOB_COMPLETED", Sec(t), Data(<<job_id>>, alloc, job_state, -1, NoJob))
JobKilledEvent(t, job_ids) ==
    Event("JOB_KILLED", Sec(t), Data(job_ids, {}, "", -1, NoJob))
RequestedCallEvent(at) == Event("REQUESTED_CALL", Sec(at), NoData)
ResourcePowerStateChangedEvent(t, res, pstate) ==
    Event("RESOURCE_POWER_STATE_CHANGED", Sec(t), Data(<<>>, res, "", pstate, NoJob))
Notify(t, notify_type) ==
    Event("NOTIFY", Sec(t), Data(<<>>, {}, notify_type, -1, NoJob))

(* event e with timestamp ticks, which need not be a whole second *)
At(e, ticks) == [e EXCEPT !.timestamp = ticks]

(* SortedList.add with key = timestamp: the new element goes after every
   element whose key is not greater (bisect_right) *)
(* add() that puts an event before the events of its timestamp *)
AddLeft(list, e) ==
    LET k == Cardinality({i \in 1..Len(list) : list[i].timestamp < e.timestamp})
    IN  SubSeq(list, 1, k) \o <<e>> \o SubSeq(list, k + 1, Len(list))

Add(list, e) ==
    LET k == Cardinality({i \in 1..Len(list) : list[i].timestamp <= e.timestamp})
    IN  SubSeq(list, 1, k) \o <<e>> \o SubSeq(list, k + 1, Len(list))

(* list.pop(p), p counted from 1 *)
Pop(list, p) == SubSeq(list, 1, p - 1) \o SubSeq(list, p + 1, Len(list))

----------------------------------------------------------------------------
(* The record of a call and the history of a run *)

Call(op, result, job_ids, res, n) ==
    [op |-> op, result |-> result, job_ids |-> job_ids, res |-> res, n |-> n]

(* passed[j]: "taken" once j was passed to execute_job or reject_job, "kill"
   once it was passed to kill_job only, "none" again when it is registered.
   killed[j]: "pending" once j was killed before its one pending completion,
   "seen" once a JOB_KILLED event naming it was dispatched after that,
   "twice" at a second one, "no" again when it is registered; kill_at[j] is
   the current_time (seconds) of that kill_job call.
   open[j]: on the Grid handler, the JOB_STARTED events of j dispatched
   since start less the JOB_COMPLETED and JOB_KILLED events naming j
   dispatched since (never counted below -1).
   target[r]: the power state asked for resource r by the most recent
   set_resources_pstate call naming r (on the Batsim handler: since the
   buffer was last sent), -1 when there was none.
   shown[r]: on the Grid handler, the power state of the last
   RESOURCE_POWER_STATE_CHANGED event dispatched for resource r since
   start, -1 when there was none. *)
NoRun ==
    [passed |-> [j \in JobIds |-> "none"], killed |-> [j \in JobIds |-> "no"],
     kill_at |-> [j \in JobIds |-> 0], open |-> [j \in JobIds |-> 0],
     target |-> [r \in ResourceIds |-> -1],
     shown |-> [r \in ResourceIds |-> -1]]

(* the history after set_resources_pstate(resources, pstate) *)
Targeted(r, resources, pstate) ==
    [r EXCEPT !.target = [x \in ResourceIds |->
                             IF x \in resources THEN pstate ELSE @[x]]]

InSeq(x, s) == \E i \in 1..Len(s) : s[i] = x

(* the history after the callback loop ran for event e *)
Seen(r, e) ==
    [r EXCEPT
        !.killed = [j \in JobIds |->
            IF e.type = "JOB_KILLED" /\ InSeq(j, e.data.job_ids)
            THEN CASE @[j] = "pending" -> "seen"
                   [] @[j] = "seen" -> "twice"
                   [] OTHER -> @[j]
            ELSE @[j]],
        !.open = [j \in JobIds |->
            IF handle # "Grid" \/ ~InSeq(j, e.data.job_ids) THEN @[j]
            ELSE CASE e.type = "JOB_STARTED" -> @[j] + 1
                   [] e.type \in {"JOB_COMPLETED", "JOB_KILLED"} /\ @[j] >= 0
                        -> @[j] - 1
                   [] OTHER -> @[j]],
        !.shown = [x \in ResourceIds |->
            IF /\ handle = "Grid"
               /\ e.type = "RESOURCE_POWER_STATE_CHANGED"
               /\ x \in e.data.alloc
            THEN e.data.pstate ELSE @[x]]]

RECURSIVE SeenAll(_, _)
SeenAll(r, evs) ==
    IF evs = <<>> THEN r ELSE SeenAll(Seen(r, Head(evs)), Tail(evs))

----------------------------------------------------------------------------
(* Dispatch *)

(* the inner loop when only the callback registered last is called *)
CallbackLoopLast(cbs, e) ==
    IF cbs[e.type] = <<>> THEN <<>>
    ELSE << <<cbs[e.type][Len(cbs[e.type])], e.timestamp, e.data>> >>

(* the inner loop of _dispatch_events: each callback registered for the
   event's type is called with (timestamp, data), in list order *)
CallbackLoop(cbs, e) ==
    [i \in 1..Len(cbs[e.type]) |-> <<cbs[e.type][i], e.timestamp, e.data>>]

RECURSIVE CallsFor(_, _)
CallsFor(cbs, evs) ==
    IF evs = <<>> THEN <<>>
    ELSE CallbackLoop(cbs, Head(evs)) \o CallsFor(cbs, Tail(evs))

(* GridSimulatorHandler._dispatch_events: the number of events the while
   loop pops, i.e. the events at the head whose timestamp equals the
   current_time property *)
RECURSIVE Due(_, _)
Due(list, now) ==
    IF list # <<>> /\ Head(list).timestamp = Sec(floor(now))
    THEN 1 + Due(Tail(list), now)
    ELSE 0

(* The state after _dispatch_events() on queue q at time now *)
GridDispatch(q, now, r) ==
    LET k == Due(q, now)
        out == SubSeq(q, 1, k)
    IN  /\ events' = SubSeq(q, k + 1, Len(q))
        /\ dispatched' = out
        /\ calls' = CallsFor(callbacks, out)
        /\ run' = SeenAll(r, out)

NoOutput ==
    /\ dispatched' = <<>>
    /\ calls' = <<>>
    /\ wire' = <<>>

BatsimVars == <<requests, simulator, network>>
GridVars == <<events, profiles, submitter_ended, is_running, jobs>>

----------------------------------------------------------------------------
(* GridSimulatorHandler *)

(* the callbacks the driver has registered so far *)
UserCallbacks ==
    {<<t, i>> \in EventType \X (1..(MaxCallbacks + 1)) :
        i <= Len(callbacks[t]) /\ callbacks[t][i] # "on_simulation_ends"}

(* the driver registers its callbacks before it first starts the
   simulation, each a new callable *)
MayRegister(call) ==
    /\ policy = "jobs"
    /\ platform = "None"
    /\ Cardinality(UserCallbacks) < MaxCallbacks
    /\ call = UserHandlers[Cardinality(UserCallbacks) + 1]

Grid_set_callback(event_type, call) ==
    /\ handle = "Grid"
    /\ MayRegister(call)
    /\ callbacks' = [callbacks EXCEPT ![event_type] = Append(@, call)]
    /\ last' = Call("set_callback", "ok", <<>>, {}, 0)
    /\ NoOutput
    /\ UNCHANGED <<handle, policy, current_time, platform, run,
                   GridVars, BatsimVars>>

(* finish() past its early return, called from operation op *)
GridFinish(op) ==
    /\ is_running' = FALSE
    /\ submitter_ended' = TRUE
    /\ profiles' = [p \in {} |-> 0]
    /\ jobs' = [j \in {} |-> NoJob]
    /\ GridDispatch(Add(<<>>, SimulationEndsEvent(CurrentTime)), current_time, run)
    /\ wire' = <<>>
    /\ last' = Call(op, "ok", <<>>, {}, 1)
    /\ UNCHANGED <<handle, policy, current_time, callbacks, platform, BatsimVars>>

Grid_finish ==
    /\ handle = "Grid"
    /\ IF ~is_running
       THEN /\ last' = Call("finish", "ok", <<>>, {}, 0)
            /\ NoOutput
            /\ UNCHANGED <<handle, policy, current_time, callbacks, platform, run, GridVars, BatsimVars>>
       ELSE GridFinish("finish")

(* assert not self.is_running: the call raises, and changes nothing, when
   the guard is false *)
Grid_start ==
    /\ handle = "Grid"
    /\ ~is_running
    /\ submitter_ended' = FALSE
    /\ jobs' = [j \in {} |-> NoJob]
    /\ current_time' = 0
    /\ platform' = "Platform"
    /\ is_running' = TRUE
    /\ GridDispatch(Add(events, SimulationBeginsEvent(0)), 0,
                    [NoRun EXCEPT !.passed = run.passed])
    /\ wire' = <<>>
    /\ last' = Call("start", "ok", <<>>, {}, 0)
    /\ UNCHANGED <<handle, policy, callbacks, profiles, BatsimVars>>

(* proceed_simulation when the finish test forgets the pending jobs *)
ProceedBranchNoJobs ==
    IF Len(events) = 0 /\ submitter_ended THEN "finish"
    ELSE IF Len(events) > 0 THEN "dispatch"
    ELSE "RuntimeError"

(* the branch proceed_simulation takes *)
ProceedBranch ==
    IF Len(events) = 0 /\ submitter_ended /\ DOMAIN jobs = {} THEN "finish"
    ELSE IF Len(events) > 0 THEN "dispatch"
    ELSE "RuntimeError"

(* assert self.is_running and the raise of RuntimeError change nothing:
   the call is a step only on its first two branches *)
Grid_proceed_simulation ==
    /\ handle = "Grid"
    /\ is_running
    /\ ProceedBranch # "RuntimeError"
    /\ IF ProceedBranch = "finish"
       THEN GridFinish("proceed_simulation")
       ELSE /\ current_time' = events[1].timestamp
            /\ GridDispatch(events, events[1].timestamp, run)
            /\ wire' = <<>>
            /\ last' = Call("proceed_simulation", "ok", <<>>, {}, 0)
            /\ UNCHANGED <<handle, policy, callbacks, platform, profiles, submitter_ended,
                           is_running, jobs, BatsimVars>>

(* a Grid command that completes: queue q, job table js, history r *)
GridDone(op, result, job_ids, res, n, q, js, r) ==
    /\ events' = q
    /\ jobs' = js
    /\ run' = r
    /\ last' = Call(op, result, job_ids, res, n)
    /\ NoOutput
    /\ UNCHANGED <<handle, policy, current_time, callbacks, platform,
                   profiles, submitter_ended, is_running, BatsimVars>>

(* the job table when pop() leaves the job in it *)
KeepJob(js, id) == js

Without(js, id) == [k \in DOMAIN js \ {id} |-> js[k]]

Passed(r, ids, how) ==
    [r EXCEPT !.passed = [j \in JobIds |->
        IF j \in ids /\ (how = "taken" \/ @[j] = "none") THEN how ELSE @[j]]]

WorkloadProfileType == {"parallel_homogeneous", "parallel_homogeneous_total", "delay"}

(* execute_job, lines 122-128: the runtime of a job under its profile on
   resources whose slowest speed is min_speed; -1 stands for
   NotImplementedError *)
Runtime(job_profile, job, min_speed) ==
    IF job_profile.type = "parallel_homogeneous"
    THEN int(job_profile.cpu, min_speed)
    ELSE IF job_profile.type = "parallel_homogeneous_total"
    THEN int(job_profile.cpu, job.res * min_speed)
    ELSE -1

MinSpeed(alloc) ==
    CHOOSE s \in {ResourceSpeed(r) : r \in alloc} :
        \A r \in alloc : s <= ResourceSpeed(r)

(* the job state when a job that runs as long as its walltime succeeds *)
JobStateAtLeast(job, runtime) ==
    IF job.walltime >= Sec(runtime)
    THEN "COMPLETED_SUCCESSFULLY" ELSE "COMPLETED_WALLTIME_REACHED"

(* the walltime of a job is kept in ticks: it need not be whole *)
JobState(job, runtime) ==
    IF job.walltime > Sec(runtime)
    THEN "COMPLETED_SUCCESSFULLY" ELSE "COMPLETED_WALLTIME_REACHED"

Grid_execute_job(job_id, alloc) ==
    /\ policy = "jobs"
    /\ handle = "Grid"
    /\ is_running
    /\ CurrentTime <= MaxTime
    /\ Len(events) < MaxQueue
    /\ job_id \in DOMAIN jobs
    /\ LET event_1 == JobStartedEvent(CurrentTime, job_id, alloc)
           r == Passed(run, {job_id}, "taken")
       IN       LET job == jobs[job_id]
                    js == Without(jobs, job_id)
                IN  IF alloc = {}
                    THEN GridDone("execute_job", "ValueError", <<job_id>>, alloc, 0,
                                  events, js, r)
                    ELSE IF job.profile \notin DOMAIN profiles
                    THEN GridDone("execute_job", "KeyError", <<job_id>>, alloc, 0,
                                  events, js, r)
                    ELSE IF profiles[job.profile].type \notin
                              {"parallel_homogeneous", "parallel_homogeneous_total"}
                    THEN GridDone("execute_job", "NotImplementedError", <<job_id>>,
                                  alloc, 0, events, js, r)
                    ELSE LET runtime == Runtime(profiles[job.profile], job,
                                                MinSpeed(alloc))
                             event_2 == At(
                                 JobCompletedEvent(CurrentTime, job_id,
                                                   JobState(job, runtime), alloc),
                                 Sec(CurrentTime) + min(Sec(runtime), job.walltime))
                         IN  GridDone("execute_job", "ok", <<job_id>>, alloc, 0,
                                      Add(Add(events, event_1), event_2), js, r)

Grid_reject_job(job_id) ==
    /\ policy = "jobs"
    /\ handle = "Grid"
    /\ is_running
    /\ job_id \in DOMAIN jobs
    /\ GridDone("reject_job", "ok", <<job_id>>, {}, 0, events,
                Without(jobs, job_id), Passed(run, {job_id}, "taken"))

(* itertools.takewhile(lambda e: e.timestamp <= at, list) *)
RECURSIVE takewhile(_, _)
takewhile(at, list) ==
    IF list # <<>> /\ Head(list).timestamp <= at
    THEN <<Head(list)>> \o takewhile(at, Tail(list))
    ELSE <<>>

(* at_ticks: the argument, a time in ticks that need not be a whole second *)
Grid_call_me_later(at_ticks) ==
    /\ handle = "Grid"
    /\ is_running
    /\ Len(events) < MaxQueue
    /\ LET at == floor(at_ticks)
           seen == takewhile(Sec(at), events)
       IN  /\ at >= CurrentTime
           /\ IF ~(\E i \in 1..Len(seen) :
                        seen[i].type = "REQUESTED_CALL" /\ seen[i].timestamp = Sec(at))
              THEN GridDone("call_me_later", "ok", <<>>, {}, at,
                            Add(events, RequestedCallEvent(at)), jobs, run)
              ELSE GridDone("call_me_later", "ok", <<>>, {}, at, events, jobs, run)

IsCompletionOf(e, i) == e.type = "JOB_COMPLETED" /\ e.data.job_ids[1] = i

(* kill_job when the completion events are left in the queue *)
KillLoopKeeps(q, ids) == [events |-> q, ok |-> TRUE]

(* the loop of kill_job: for each id the first JOB_COMPLETED event of the
   job is popped; next() on no match raises StopIteration and leaves the
   events popped so far removed *)
RECURSIVE KillLoop(_, _)
KillLoop(q, ids) ==
    IF ids = <<>> THEN [events |-> q, ok |-> TRUE]
    ELSE LET P == {p \in 1..Len(q) : IsCompletionOf(q[p], Head(ids))}
         IN  IF P = {} THEN [events |-> q, ok |-> FALSE]
             ELSE KillLoop(Pop(q, CHOOSE p \in P : \A o \in P : p <= o), Tail(ids))

Range(s) == {s[i] : i \in 1..Len(s)}

(* the history after kill_job(job_ids) succeeded on queue q: the jobs
   killed before their one pending completion, executed since their id
   was last registered and with no earlier kill of the id still queued,
   are watched *)
Killed(r, q, job_ids) ==
    LET early(j) ==
            /\ j \in Range(job_ids)
            /\ r.passed[j] = "taken"
            /\ Cardinality({p \in 1..Len(q) : IsCompletionOf(q[p], j)}) = 1
            /\ \A p \in 1..Len(q) :
                  ~(q[p].type = "JOB_KILLED" /\ InSeq(j, q[p].data.job_ids))
            /\ \A p \in 1..Len(q) :
                  IsCompletionOf(q[p], j) => q[p].timestamp > Sec(CurrentTime)
    IN  [r EXCEPT
            !.killed = [j \in JobIds |-> IF early(j) THEN "pending" ELSE @[j]],
            !.kill_at = [j \in JobIds |-> IF early(j) THEN CurrentTime ELSE @[j]]]

Grid_kill_job(job_ids) ==
    /\ policy = "jobs"
    /\ handle = "Grid"
    /\ is_running
    /\ LET k == KillLoop(events, job_ids)
           r == Passed(run, Range(job_ids), "kill")
       IN  /\ k.ok \/ k.events # events
           /\ IF ~k.ok
              THEN GridDone("kill_job", "StopIteration", job_ids, {}, 0,
                            k.events, jobs, r)
              ELSE GridDone("kill_job", "ok", job_ids, {}, 0,
                            Add(k.events, JobKilledEvent(CurrentTime, job_ids)),
                            jobs, Killed(r, events, job_ids))

Registered(r, id) ==
    [r EXCEPT !.passed = [@ EXCEPT ![id] = "none"],
              !.killed = [@ EXCEPT ![id] = "no"],
              !.kill_at = [@ EXCEPT ![id] = 0]]

Grid_register_job(id, profile, res, walltime) ==
    /\ policy = "jobs"
    /\ handle = "Grid"
    /\ is_running
    /\ CurrentTime <= MaxTime
    /\ Len(events) < MaxQueue
    /\ LET e == JobSubmittedEvent(CurrentTime, id, profile, res, walltime)
       IN  GridDone("register_job", "ok", <<id>>, {}, walltime,
                    Add(events, e),
                    [k \in DOMAIN jobs \cup {id} |->
                        IF k = id THEN e.data.job ELSE jobs[k]],
                    Registered(run, id))

Grid_register_profile(profile_name, profile) ==
    /\ policy = "jobs"
    /\ handle = "Grid"
    /\ is_running
    /\ profiles' = [k \in DOMAIN profiles \cup {profile_name} |->
                       IF k = profile_name THEN profile ELSE profiles[k]]
    /\ last' = Call("register_profile", "ok", <<>>, {}, profile.cpu)
    /\ NoOutput
    /\ UNCHANGED <<handle, policy, current_time, callbacks, platform, run,
                   events, submitter_ended, is_running, jobs, BatsimVars>>

Grid_notify(notify_type) ==
    /\ policy = "jobs"
    /\ handle = "Grid"
    /\ is_running
    /\ Len(events) < MaxQueue
    /\ submitter_ended' =
          IF notify_type \in {"no_more_static_job_to_submit", "registration_finished"}
          THEN TRUE ELSE submitter_ended
    /\ events' = Add(events, Notify(CurrentTime, notify_type))
    /\ last' = Call("notify", "ok", <<>>, {}, 0)
    /\ NoOutput
    /\ UNCHANGED <<handle, policy, current_time, callbacks, platform, run,
                   profiles, is_running, jobs, BatsimVars>>

----------------------------------------------------------------------------
(* The transition planning shared by both set_resources_pstate methods *)

(* the id of the transition power state of node n on the way to pstate:
   lines 174-182; -1 stands for None *)
TransPs(n, pstate, on) ==
    IF PowerStateType(pstate) = "sleep"
    THEN CHOOSE ps \in PowerStateIds : PowerStateType(ps) = "switching_off"
    ELSE IF PowerStateType(pstate) = "computation" /\ n \notin on
    THEN CHOOSE ps \in PowerStateIds : PowerStateType(ps) = "switching_on"
    ELSE -1

(* the time to switch when the speed is taken for the time *)
TimeToSwitchSpeed(n, pstate, on) ==
    IF TransPs(n, pstate, on) = -1 THEN 0
    ELSE int(PowerStateSpeed(n, TransPs(n, pstate, on)).num,
             PowerStateSpeed(n, TransPs(n, pstate, on)).den)

(* line 184: 0 if not trans_ps else int(1/trans_ps.speed) *)
TimeToSwitch(n, pstate, on) ==
    IF TransPs(n, pstate, on) = -1 THEN 0
    ELSE int(PowerStateSpeed(n, TransPs(n, pstate, on)).den,
             PowerStateSpeed(n, TransPs(n, pstate, on)).num)

RECURSIVE Sorted(_)
Sorted(S) ==
    IF S = {} THEN <<>>
    ELSE LET m == CHOOSE x \in S : \A y \in S : x <= y
         IN  <<m>> \o Sorted(S \ {m})

(* s without the repetitions of its elements, first occurrences kept: the
   key order of a dict filled in the order of s *)
RECURSIVE Keys(_)
Keys(s) ==
    IF s = <<>> THEN <<>>
    ELSE LET rest == Keys(SubSeq(s, 1, Len(s) - 1))
         IN  IF InSeq(s[Len(s)], rest) THEN rest ELSE Append(rest, s[Len(s)])

(* the nodes the loop over platform.get_resources(resources) visits, in
   the order it first meets them *)
NodesVisited(resources) ==
    LET rs == Sorted(resources)
    IN  Keys([i \in 1..Len(rs) |-> ResourceParent(rs[i])])

(* transitions: power state id -> the resources of every visited node that
   passes through it, as (key, resources) pairs in key order *)
Transitions(resources, pstate, on) ==
    LET ns == NodesVisited(resources)
        with == SelectSeq(ns, LAMBDA n : TransPs(n, pstate, on) # -1)
        ks == Keys([i \in 1..Len(with) |-> TransPs(with[i], pstate, on)])
    IN  [i \in 1..Len(ks) |->
            [key |-> ks[i],
             res |-> UNION {NodeResources(n) :
                            n \in {m \in Range(with) : TransPs(m, pstate, on) = ks[i]}}]]

(* timestamps: time to switch -> the resources of every visited node that
   takes that long *)
Timestamps(resources, pstate, on) ==
    LET ns == NodesVisited(resources)
        ks == Keys([i \in 1..Len(ns) |-> TimeToSwitch(ns[i], pstate, on)])
    IN  [i \in 1..Len(ks) |->
            [key |-> ks[i],
             res |-> UNION {NodeResources(n) :
                            n \in {m \in Range(ns) : TimeToSwitch(m, pstate, on) = ks[i]}}]]

RECURSIVE AddAll(_, _)
AddAll(list, es) ==
    IF es = <<>> THEN list ELSE AddAll(Add(list, Head(es)), Tail(es))

(* ack is "pass"; change_job_state only raises NotImplementedError and is
   no step *)
Grid_ack ==
    /\ handle = "Grid"
    /\ UNCHANGED vars

Grid_set_resources_pstate(resources, pstate, on) ==
    /\ policy = "power"
    /\ handle = "Grid"
    /\ is_running
    /\ CurrentTime <= MaxTime
    /\ Len(events) < MaxQueue
    /\ LET tr == Transitions(resources, pstate, on)
           ts == Timestamps(resources, pstate, on)
           first == [i \in 1..Len(tr) |->
                       ResourcePowerStateChangedEvent(CurrentTime, tr[i].res, tr[i].key)]
           final == [i \in 1..Len(ts) |->
                       ResourcePowerStateChangedEvent(CurrentTime + ts[i].key,
                                                      ts[i].res, pstate)]
       IN  GridDone("set_resources_pstate", "ok", <<>>, resources, pstate,
                    AddAll(AddAll(events, first), final), jobs,
                    Targeted(run, resources, pstate))

----------------------------------------------------------------------------
(* BatsimSimulatorHandler *)

ExecuteJobRequest(t, job_id, alloc) ==
    Event("EXECUTE_JOB", Sec(t), Data(<<job_id>>, alloc, "", -1, NoJob))
RejectJobRequest(t, job_id) ==
    Event("REJECT_JOB", Sec(t), Data(<<job_id>>, {}, "", -1, NoJob))
CallMeLaterRequest(t, at) ==
    Event("CALL_ME_LATER", Sec(t), [NoData EXCEPT !.at = at])
KillJobRequest(t, job_ids) ==
    Event("KILL_JOB", Sec(t), Data(job_ids, {}, "", -1, NoJob))
RegisterJobRequest(t, id, profile, res, walltime) ==
    Event("REGISTER_JOB", Sec(t),
          Data(<<id>>, {}, "", -1,
               [profile |-> profile, res |-> res, walltime |-> walltime]))
(* the profile travels as (name, type, cpu) *)
RegisterProfileRequest(t, profile_name, profile) ==
    Event("REGISTER_PROFILE", Sec(t),
          Data(<<>>, {}, profile_name, -1,
               [profile |-> profile.type, res |-> profile.cpu, walltime |-> 0]))
SetResourceStateRequest(t, resources, pstate) ==
    Event("SET_RESOURCE_STATE", Sec(t), Data(<<>>, resources, "", pstate, NoJob))
ChangeJobStateRequest(t, job_id, job_state) ==
    Event("CHANGE_JOB_STATE", Sec(t), Data(<<job_id>>, {}, job_state, -1, NoJob))

(* Request.update_resources: the resource ids of the request are united
   with the new ones *)
update_resources(req, resources) ==
    [req EXCEPT !.data.alloc = @ \cup resources]

(* a transport operation: "spawn", "bind", "flush", "send", "recv", "wait",
   "kill" or "close"; a send carries Message(now, requests) *)
Wire(op, now, reqs) == [op |-> op, now |-> now, requests |-> reqs]

(* on_simulation_ends on handler state st at time now (seconds) *)
on_simulation_ends(st, now) ==
    LET a == IF st.simulator # "None"
             THEN [st EXCEPT
                     !.wire = @ \o <<Wire("send", now, <<>>), Wire("wait", now, <<>>),
                                     Wire("kill", now, <<>>)>>,
                     !.simulator = "None"]
             ELSE st
    IN  [a EXCEPT !.requests = <<>>,
                  !.wire = @ \o <<Wire("close", now, <<>>)>>,
                  !.network = "closed"]

(* BatsimSimulatorHandler._dispatch_events, inner loop: the callbacks hs
   of event e are called in order *)
RECURSIVE BatsimCallbackLoop(_, _, _, _)
BatsimCallbackLoop(st, hs, e, now) ==
    IF hs = <<>> THEN st
    ELSE LET called == [st EXCEPT !.calls = Append(@, <<Head(hs), e.timestamp, e.data>>)]
             after == IF Head(hs) = "on_simulation_ends"
                      THEN on_simulation_ends(called, now) ELSE called
         IN  BatsimCallbackLoop(after, Tail(hs), e, now)

RECURSIVE BatsimDispatchLoop(_, _, _)
BatsimDispatchLoop(st, evs, now) ==
    IF evs = <<>> THEN st
    ELSE BatsimDispatchLoop(
             BatsimCallbackLoop(st, callbacks[Head(evs).type], Head(evs), now),
             Tail(evs), now)

(* The state after _dispatch_events(evs) at time now (ticks), entered with
   process sim, buffer reqs, channel net and the transport operations w
   already made by the call; the call makes the operations after next *)
BatsimDispatch(evs, now, sim, reqs, net, w, after, r) ==
    LET st == BatsimDispatchLoop(
                  [simulator |-> sim, requests |-> reqs, network |-> net,
                   wire |-> w, calls |-> <<>>], evs, floor(now))
    IN  /\ simulator' = st.simulator
        /\ requests' = st.requests
        /\ network' = st.network
        /\ wire' = st.wire \o after
        /\ calls' = st.calls
        /\ dispatched' = evs
        /\ run' = SeenAll(r, evs)

(* is_running when the test of the process is inverted *)
BatsimIsRunningInverted == simulator = "None"

BatsimIsRunning == simulator # "None"

Batsim_set_callback(event_type, call) ==
    /\ handle = "Batsim"
    /\ MayRegister(call)
    /\ callbacks' = [callbacks EXCEPT ![event_type] = Append(@, call)]
    /\ last' = Call("set_callback", "ok", <<>>, {}, 0)
    /\ NoOutput
    /\ UNCHANGED <<handle, policy, current_time, platform, run,
                   GridVars, BatsimVars>>

Batsim_ack ==
    /\ handle = "Batsim"
    /\ BatsimIsRunning
    /\ wire' = <<Wire("send", CurrentTime, <<>>)>>
    /\ dispatched' = <<>>
    /\ calls' = <<>>
    /\ last' = Call("ack", "ok", <<>>, {}, 0)
    /\ UNCHANGED <<handle, policy, current_time, callbacks, platform, run,
                   GridVars, BatsimVars>>

Batsim_start ==
    /\ handle = "Batsim"
    /\ ~BatsimIsRunning
    /\ current_time' = 0
    /\ platform' = "Platform"
    /\ BatsimDispatch(<<SimulationBeginsEvent(0)>>, 0, "Popen", requests, "bound",
                      <<Wire("spawn", 0, <<>>), Wire("bind", 0, <<>>)>>,
                      <<Wire("flush", 0, <<>>)>>,
                      [NoRun EXCEPT !.passed = run.passed])
    /\ last' = Call("start", "ok", <<>>, {}, 0)
    /\ UNCHANGED <<handle, policy, callbacks, GridVars>>

(* _close_simulator: the transport operations it makes on process sim *)
close_simulator(sim, now) ==
    IF sim # "None" THEN <<Wire("kill", now, <<>>)>> ELSE <<>>

Batsim_finish ==
    /\ handle = "Batsim"
    /\ BatsimDispatch(<<SimulationEndsEvent(CurrentTime)>>, current_time, "None",
                      requests, network, close_simulator(simulator, CurrentTime),
                      <<>>, run)
    /\ last' = Call("finish", "ok", <<>>, {}, IF BatsimIsRunning THEN 1 ELSE 0)
    /\ UNCHANGED <<handle, policy, current_time, callbacks, platform, GridVars>>

(* the reply of the external process: Message(now, events) *)
Replies(now) ==
    {<<>>,
     <<Event("REQUESTED_CALL", now, NoData)>>,
     <<Event("JOB_COMPLETED", now,
             Data(<<"j1">>, {0}, "COMPLETED_SUCCESSFULLY", -1, NoJob))>>,
     <<Event("SIMULATION_ENDS", now, NoData)>>}

(* proceed_simulation: _send_requests, _read_events, _dispatch_events *)
Batsim_proceed_simulation(now, reply) ==
    /\ handle = "Batsim"
    /\ BatsimIsRunning
    /\ current_time' = now
    /\ BatsimDispatch(reply, now, simulator, <<>>, network,
                      <<Wire("send", CurrentTime, requests),
                        Wire("recv", floor(now), <<>>)>>,
                      <<>>, [run EXCEPT !.target = NoRun.target])
    /\ last' = Call("proceed_simulation", "ok", <<>>, {}, 0)
    /\ UNCHANGED <<handle, policy, callbacks, platform, GridVars>>

(* a Batsim command that appends or merges into the buffer (reqs is the
   buffer after it) and dispatches evs at once *)
BatsimDone(op, job_ids, res, n, reqs, evs, r) ==
    /\ BatsimDispatch(evs, current_time, simulator, reqs, network, <<>>, <<>>, r)
    /\ last' = Call(op, "ok", job_ids, res, n)
    /\ UNCHANGED <<handle, policy, current_time, callbacks, platform, GridVars>>

BatsimMay ==
    /\ handle = "Batsim"
    /\ BatsimIsRunning
    /\ Len(requests) < MaxQueue

Batsim_execute_job(job_id, alloc) ==
    /\ policy = "jobs"
    /\ BatsimMay
    /\ LET request == ExecuteJobRequest(CurrentTime, job_id, alloc)
       IN  BatsimDone("execute_job", <<job_id>>, alloc, 0, Add(requests, request),
                      <<JobStartedEvent(CurrentTime, job_id, request.data.alloc)>>,
                      Passed(run, {job_id}, "taken"))

Batsim_reject_job(job_id) ==
    /\ policy = "jobs"
    /\ BatsimMay
    /\ BatsimDone("reject_job", <<job_id>>, {}, 0,
                  Add(requests, RejectJobRequest(CurrentTime, job_id)), <<>>,
                  Passed(run, {job_id}, "taken"))

Batsim_call_me_later(at_ticks) ==
    /\ BatsimMay
    /\ BatsimDone("call_me_later", <<>>, {}, floor(at_ticks),
                  Add(requests, CallMeLaterRequest(
                      CurrentTime, Sec(floor(at_ticks)) + CallMeLaterOffset)),
                  <<>>, run)

Batsim_kill_job(job_ids) ==
    /\ policy = "jobs"
    /\ BatsimMay
    /\ BatsimDone("kill_job", job_ids, {}, 0,
                  Add(requests, KillJobRequest(CurrentTime, job_ids)), <<>>,
                  Passed(run, Range(job_ids), "kill"))

Batsim_register_job(id, profile, res, walltime) ==
    /\ policy = "jobs"
    /\ BatsimMay
    /\ BatsimDone("register_job", <<id>>, {}, walltime,
                  Add(requests, RegisterJobRequest(CurrentTime, id, profile, res,
                                                   walltime)),
                  <<JobSubmittedEvent(CurrentTime, id, profile, res, walltime)>>,
                  Registered(run, id))

Batsim_register_profile(profile_name, profile) ==
    /\ policy = "jobs"
    /\ BatsimMay
    /\ BatsimDone("register_profile", <<>>, {}, profile.cpu,
                  Add(requests, RegisterProfileRequest(CurrentTime, profile_name,
                                                       profile)),
                  <<>>, run)

(* lines 343-354: the first buffered SET_RESOURCE_STATE request of this
   timestamp takes the resources; otherwise a new request is appended *)
(* the buffer when every call appends a request of its own *)
MergeResourcesNever(reqs, now, resources, pstate) ==
    Add(reqs, SetResourceStateRequest(now, resources, pstate))

MergeResources(reqs, now, resources, pstate) ==
    LET M == {i \in 1..Len(reqs) :
                 reqs[i].timestamp = Sec(now) /\ reqs[i].type = "SET_RESOURCE_STATE"}
    IN  IF M # {}
        THEN LET i == CHOOSE x \in M : \A y \in M : x <= y
             IN  [reqs EXCEPT ![i] = update_resources(@, resources)]
        ELSE Add(reqs, SetResourceStateRequest(now, resources, pstate))

Batsim_set_resources_pstate(resources, pstate, on) ==
    /\ policy = "power"
    /\ BatsimMay
    /\ LET tr == Transitions(resources, pstate, on)
       IN  BatsimDone("set_resources_pstate", <<>>, resources, pstate,
                      MergeResources(requests, CurrentTime, resources, pstate),
                      [i \in 1..Len(tr) |->
                          ResourcePowerStateChangedEvent(CurrentTime, tr[i].res,
                                                         tr[i].key)],
                      Targeted(run, resources, pstate))

Batsim_change_job_state(job_id, job_state) ==
    /\ policy = "jobs"
    /\ BatsimMay
    /\ BatsimDone("change_job_state", <<job_id>>, {}, 0,
                  Add(requests, ChangeJobStateRequest(CurrentTime, job_id, job_state)),
                  <<>>, run)

Batsim_notify(notify_type) ==
    /\ policy = "jobs"
    /\ BatsimMay
    /\ BatsimDone("notify", <<>>, {}, 0,
                  Add(requests, Notify(CurrentTime, notify_type)),
                  <<Notify(CurrentTime, notify_type)>>, run)

----------------------------------------------------------------------------
(* What the driver passes *)

Allocs == {{0}, {1, 2}}
ResCounts == {2}
(* walltimes in ticks: none (-1 s), a whole one and one half a second less *)
Walltimes == {Sec(-1), Sec(MaxWalltime), Sec(MaxWalltime) - Ticks \div 2}
CpuWorks == {MaxCpu}
Profiles == [type : WorkloadProfileType, cpu : CpuWorks]
KillLists == {<<"j1">>}
Times == {Sec(t) + f : t \in 0..MaxTime, f \in {0, Ticks \div 2}}
Resources == {{1}, {2}, {1, 2}}
TargetPstates == {0, 1}
(* the nodes that are on when a power state is requested; the answer of
   n.is_on is read only on the way to a computation state *)
OnSets(pstate) ==
    IF PowerStateType(pstate) = "computation" THEN SUBSET NodeIds ELSE {NodeIds}
NotifyTypes == {"registration_finished", "continue_registration"}
(* the remote handler forwards its arguments unread: one value of each *)
RemoteAllocs == {{1, 2}}
RemoteProfiles == {[type |-> "parallel_homogeneous", cpu |-> MaxCpu]}
RemoteWalltimes == {Sec(MaxWalltime)}
(* the external process answers with a time that is not in its past *)
ReplyTimes == {t \in Times : current_time <= t /\ t <= current_time + Ticks}

Init ==
    /\ handle \in {"Grid", "Batsim"}
    /\ policy \in {"jobs", "power"}
    /\ current_time = 0
    /\ callbacks = [t \in EventType |->
                       IF handle = "Batsim" /\ t = "SIMULATION_ENDS"
                       THEN <<"on_simulation_ends">> ELSE <<>>]
    /\ events = <<>>
    /\ profiles = [p \in {} |-> 0]
    /\ submitter_ended = TRUE
    /\ platform = "None"
    /\ is_running = FALSE
    /\ jobs = [j \in {} |-> NoJob]
    /\ requests = <<>>
    /\ simulator = "None"
    /\ network = "new"
    /\ dispatched = <<>>
    /\ calls = <<>>
    /\ wire = <<>>
    /\ last = Call("__init__", "ok", <<>>, {}, 0)
    /\ run = NoRun

Next ==
    \/ \E t \in CallbackTypes, h \in Range(UserHandlers) : Grid_set_callback(t, h)
    \/ Grid_start
    \/ Grid_proceed_simulation
    \/ Grid_finish
    \/ Grid_ack
    \/ \E j \in JobIds, a \in Allocs : Grid_execute_job(j, a)
    \/ \E j \in JobIds : Grid_reject_job(j)
    \/ \E at \in Times : Grid_call_me_later(at)
    \/ \E ids \in KillLists : Grid_kill_job(ids)
    \/ \E j \in JobIds, p \in ProfileNames, n \in ResCounts, w \in Walltimes :
          Grid_register_job(j, p, n, w)
    \/ \E p \in ProfileNames, v \in Profiles : Grid_register_profile(p, v)
    \/ \E rs \in Resources, ps \in TargetPstates : \E on \in OnSets(ps) :
          Grid_set_resources_pstate(rs, ps, on)
    \/ \E n \in NotifyTypes : Grid_notify(n)
    \/ \E t \in CallbackTypes, h \in Range(UserHandlers) : Batsim_set_callback(t, h)
    \/ Batsim_start
    \/ \E now \in ReplyTimes : \E reply \in Replies(now) :
          Batsim_proceed_simulation(now, reply)
    \/ Batsim_finish
    \/ Batsim_ack
    \/ \E j \in JobIds, a \in RemoteAllocs : Batsim_execute_job(j, a)
    \/ \E j \in JobIds : Batsim_reject_job(j)
    \/ \E at \in Times : Batsim_call_me_later(at)
    \/ \E ids \in KillLists : Batsim_kill_job(ids)
    \/ \E j \in JobIds, p \in ProfileNames, n \in ResCounts, w \in RemoteWalltimes :
          Batsim_register_job(j, p, n, w)
    \/ \E p \in ProfileNames, v \in RemoteProfiles : Batsim_register_profile(p, v)
    \/ \E rs \in Resources, ps \in TargetPstates : \E on \in OnSets(ps) :
          Batsim_set_resources_pstate(rs, ps, on)
    \/ \E j \in JobIds : Batsim_change_job_state(j, "COMPLETED_KILLED")
    \/ \E n \in NotifyTypes : Batsim_notify(n)

Spec == Init /\ [][Next]_vars

----------------------------------------------------------------------------
(* Properties *)

NonDecreasing(ts) == \A i, k \in 1..Len(ts) : i < k => ts[i] <= ts[k]

Timestamps_of(evs) == [i \in 1..Len(evs) |-> evs[i].timestamp]

(* C1: on the self-contained handle every advance dispatches its events
   from the head of the queue in queue order, with
   non-decreasing timestamps none of which is below the timestamp reached
   by the events dispatched before; and current_time moves only when no
   queued event carries the timestamp it leaves. *)
C1_DispatchOrder ==
    [][(handle = "Grid" /\ is_running /\ last'.op = "proceed_simulation" /\ is_running')
         => /\ dispatched' \o events' = events
            /\ NonDecreasing(Timestamps_of(dispatched'))
            /\ \A i \in 1..Len(dispatched') :
                  dispatched'[i].timestamp >= Sec(CurrentTime)
            /\ floor(current_time') # CurrentTime =>
                  \A i \in 1..Len(events) :
                      events[i].timestamp # Sec(CurrentTime)]_vars

(* C2: within one run of the self-contained handle current_time never
   decreases, and the floored timestamp of every dispatched event is at
   least the floored time reached by the events dispatched before it. *)
C2_MonotonicTime ==
    [][(handle = "Grid" /\ is_running /\ is_running')
         => /\ floor(current_time') >= floor(current_time)
            /\ \A i \in 1..Len(dispatched') :
                  floor(dispatched'[i].timestamp) >= floor(current_time)
            /\ NonDecreasing([i \in 1..Len(dispatched') |->
                                 floor(dispatched'[i].timestamp)])]_vars

(* C3, as stated: a call of execute_job, reject_job or kill_job that
   succeeds names only job ids that were passed to none of the three
   since they were last registered. *)
C3_Exclusive ==
    [][\A j \in JobIds :
         (/\ last'.op \in {"execute_job", "reject_job", "kill_job"}
          /\ last'.result = "ok"
          /\ InSeq(j, last'.job_ids))
         => run.passed[j] = "none"]_vars

(* C3, amended: on the self-contained handle no call of execute_job or
   reject_job gets as far as removing a job whose id was passed to
   execute_job or reject_job since it was last registered. *)
C3_ExclusiveExecuteReject ==
    [][\A j \in JobIds :
         (/\ handle = "Grid"
          /\ last'.op \in {"execute_job", "reject_job"}
          /\ InSeq(j, last'.job_ids))
         => run.passed[j] # "taken"]_vars

C3_Witness ==
    /\ handle = "Grid"
    /\ last.op = "execute_job"
    /\ last.result = "ok"
    /\ run.passed["j1"] = "taken"
    /\ "j1" \notin DOMAIN jobs
    /\ is_running

KilledEvents(evs, j) ==
    {i \in 1..Len(evs) : evs[i].type = "JOB_KILLED" /\ InSeq(j, evs[i].data.job_ids)}

CompletedEvents(evs, j) ==
    {i \in 1..Len(evs) :
        evs[i].type = "JOB_COMPLETED" /\ InSeq(j, evs[i].data.job_ids)}

(* C4: on the self-contained handle, from a kill_job for a job that was
   executed since its id was last registered and whose one completion
   event is queued with a timestamp after current_time (and no earlier
   kill of the id is queued) until the id is registered again:
   no JOB_COMPLETED event of the id is queued or dispatched; while the
   run lasts exactly one JOB_KILLED event listing the id is queued, with
   the current_time of the kill as timestamp, until it is dispatched, at
   that current_time, and none is queued or dispatched after that. *)
C4_KillBeforeCompletion ==
    /\ [](handle = "Grid" =>
            \A j \in JobIds : run.killed[j] # "no" =>
                /\ run.killed[j] # "twice"
                /\ CompletedEvents(dispatched, j) = {}
                /\ CompletedEvents(events, j) = {}
                /\ (run.killed[j] = "pending" /\ is_running) =>
                      /\ Cardinality(KilledEvents(events, j)) = 1
                      /\ \A i \in KilledEvents(events, j) :
                            events[i].timestamp = Sec(run.kill_at[j])
                /\ run.killed[j] = "seen" => KilledEvents(events, j) = {})
    /\ [][handle = "Grid" =>
            \A j \in JobIds :
                /\ (run.killed[j] # "pending" /\ run'.killed[j] = "pending") =>
                      /\ last'.op = "kill_job"
                      /\ InSeq(j, last'.job_ids)
                      /\ run'.kill_at[j] = CurrentTime
                      /\ run.passed[j] = "taken"
                      /\ Cardinality(CompletedEvents(events, j)) = 1
                      /\ \A i \in CompletedEvents(events, j) :
                            events[i].timestamp > Sec(CurrentTime)
                /\ (run.killed[j] = "pending" /\ run'.killed[j] = "seen") =>
                      /\ Cardinality(KilledEvents(dispatched', j)) = 1
                      /\ \A i \in KilledEvents(dispatched', j) :
                            dispatched'[i].timestamp = Sec(run.kill_at[j])
                      /\ current_time' = Sec(run.kill_at[j])]_vars

C4_Witness ==
    /\ handle = "Grid"
    /\ run.killed["j1"] = "seen"
    /\ KilledEvents(dispatched, "j1") # {}
    /\ last.op = "proceed_simulation"

(* C5: after a started simulation, on either handler, a finish() that is
   called while the simulation runs dispatches exactly one
   SIMULATION_ENDS event, and a finish() that directly follows a
   finish() dispatches none and changes no state. *)
C5_IdempotentFinish ==
    [][(platform # "None" /\ last'.op = "finish") =>
         LET ends == {i \in 1..Len(dispatched') :
                         dispatched'[i].type = "SIMULATION_ENDS"}
         IN  IF last.op = "finish"
             THEN /\ ends = {}
                  /\ wire' = <<>>
                  /\ UNCHANGED <<current_time, callbacks, platform, GridVars,
                                 BatsimVars>>
             ELSE (is_running \/ BatsimIsRunning) => Cardinality(ends) = 1]_vars

(* the workload is over: nothing queued, nothing pending, submitter ended *)
NoMoreWork == Len(events) = 0 /\ DOMAIN jobs = {} /\ submitter_ended

(* C6, as stated: a running self-contained handle is always in one of the
   two cases of advance: there is no more work, or an event is queued. *)
C6_TwoOutcomes ==
    (handle = "Grid" /\ is_running) => (NoMoreWork \/ Len(events) > 0)

(* C6, amended: advance on a running self-contained handle finishes the
   simulation when there is no more work (one SIMULATION_ENDS event at
   current_time, handle no longer running); with an event queued it sets
   current_time to the timestamp of the earliest queued event and
   dispatches, in queue order, exactly the queued events whose timestamp
   is the floor of it (all the events of the earliest timestamp, that
   being whole); with an empty queue and work left it is no step at
   all. *)
C6_ThreeOutcomes ==
    /\ [][(handle = "Grid" /\ is_running /\ last'.op = "proceed_simulation") =>
            IF NoMoreWork
            THEN /\ ~is_running'
                 /\ dispatched' = <<SimulationEndsEvent(CurrentTime)>>
                 /\ current_time' = current_time
                 /\ events' = <<>>
            ELSE /\ Len(events) > 0
                 /\ is_running'
                 /\ current_time' = events[1].timestamp
                 /\ \A i \in 1..Len(events) :
                       events[1].timestamp <= events[i].timestamp
                 /\ dispatched' =
                       SelectSeq(events, LAMBDA e :
                           e.timestamp = Sec(floor(events[1].timestamp)))
                 /\ events' =
                       SelectSeq(events, LAMBDA e :
                           e.timestamp # Sec(floor(events[1].timestamp)))
          ]_vars
    /\ []((handle = "Grid" /\ is_running /\ Len(events) = 0 /\ ~NoMoreWork)
            => ~ENABLED Grid_proceed_simulation)

C6_Witness ==
    /\ handle = "Grid"
    /\ is_running
    /\ last.op = "proceed_simulation"
    /\ Len(dispatched) >= 2
    /\ Len(events) >= 1

Removed(list, p, q) ==
    [i \in 1..(Len(list) - 2) |->
        IF i < p THEN list[i] ELSE IF i < q - 1 THEN list[i + 1] ELSE list[i + 2]]

(* C7: on the self-contained handle set_resources_pstate with a sleep
   state for a non-empty subset of the resources of one node queues
   exactly two events more: one for the switching-off state at
   current_time and, behind it, one for the sleep state at current_time +
   floor(1 / speed of the switching-off state), both with all the
   resources of the node; and a power state event is dispatched when
   current_time is its timestamp. *)
C7_SleepTransition ==
    /\ [][\A n \in NodeIds :
            (/\ handle = "Grid"
             /\ last'.op = "set_resources_pstate"
             /\ PowerStateType(last'.n) = "sleep"
             /\ last'.res # {}
             /\ last'.res \subseteq NodeResources(n))
            => LET off == CHOOSE ps \in PowerStateIds :
                              PowerStateType(ps) = "switching_off"
                   speed == PowerStateSpeed(n, off)
                   e1 == ResourcePowerStateChangedEvent(
                             CurrentTime, NodeResources(n), off)
                   e2 == ResourcePowerStateChangedEvent(
                             CurrentTime + (speed.den \div speed.num),
                             NodeResources(n), last'.n)
               IN  /\ Len(events') = Len(events) + 2
                   /\ \E p, q \in 1..Len(events') :
                         /\ p < q
                         /\ events'[p] = e1
                         /\ events'[q] = e2
                         /\ Removed(events', p, q) = events]_vars
    /\ [](handle = "Grid" =>
            \A i \in 1..Len(dispatched) :
                dispatched[i].type = "RESOURCE_POWER_STATE_CHANGED"
                => dispatched[i].timestamp = current_time)

C7_Witness ==
    /\ handle = "Grid"
    /\ last.op = "set_resources_pstate"
    /\ last.n = 1
    /\ last.res = {1}
    /\ \E i \in 1..Len(events) :
          /\ events[i].type = "RESOURCE_POWER_STATE_CHANGED"
          /\ events[i].data.pstate = 1
          /\ events[i].data.alloc = {0, 1}
          /\ events[i].timestamp = Sec(CurrentTime + 2)

Count(e, list) == Cardinality({i \in 1..Len(list) : list[i] = e})

(* C8: on the self-contained handle an execute_job that succeeds for a
   pending job takes the job out of the pending jobs and queues one
   JOB_COMPLETED event of the job more, at current_time +
   min(runtime, walltime), where runtime is floor(cpu / minSpeed) for
   parallel_homogeneous and floor((cpu / res) / minSpeed) for
   parallel_homogeneous_total, minSpeed the least speed of the allocated
   resources; its state is COMPLETED_SUCCESSFULLY exactly when walltime >
   runtime and COMPLETED_WALLTIME_REACHED otherwise.  (Walltimes are in
   ticks, runtimes in seconds.) *)
C8_Runtime ==
    [][\A j \in JobIds :
         (/\ handle = "Grid"
          /\ last'.op = "execute_job"
          /\ last'.result = "ok"
          /\ last'.job_ids = <<j>>
          /\ j \in DOMAIN jobs)
         => LET job == jobs[j]
                prof == profiles[job.profile]
                speeds == {ResourceSpeed(r) : r \in last'.res}
                minSpeed == CHOOSE v \in speeds : \A w \in speeds : v <= w
                runtime == IF prof.type = "parallel_homogeneous"
                           THEN prof.cpu \div minSpeed
                           ELSE (prof.cpu \div job.res) \div minSpeed
                state == IF job.walltime > Sec(runtime)
                         THEN "COMPLETED_SUCCESSFULLY"
                         ELSE "COMPLETED_WALLTIME_REACHED"
                at == IF Sec(runtime) < job.walltime
                      THEN Sec(runtime) ELSE job.walltime
                e == [JobCompletedEvent(CurrentTime, j, state, last'.res)
                        EXCEPT !.timestamp = Sec(CurrentTime) + at]
            IN  /\ job.profile \in DOMAIN profiles
                /\ j \notin DOMAIN jobs'
                /\ prof.type \in {"parallel_homogeneous",
                                  "parallel_homogeneous_total"}
                /\ Count(e, events') = Count(e, events) + 1
                /\ Cardinality(CompletedEvents(events', j))
                     = Cardinality(CompletedEvents(events, j)) + 1]_vars

C8_Witness ==
    /\ handle = "Grid"
    /\ last.op = "execute_job"
    /\ last.result = "ok"
    /\ last.res = {1, 2}
    /\ "p" \in DOMAIN profiles
    /\ profiles["p"].type = "parallel_homogeneous"
    /\ \E i \in 1..Len(events) :
          /\ events[i].type = "JOB_COMPLETED"
          /\ events[i].data.info = "COMPLETED_WALLTIME_REACHED"
          /\ events[i].timestamp = Sec(CurrentTime + MaxWalltime)

(* C9: on either handler no two pending requested calls are for the same
   time: no two queued REQUESTED_CALL events of the self-contained handle
   have the same timestamp, and no two buffered CALL_ME_LATER requests of
   the remote handle ask for the same time. *)
C9_OneRequestedCall ==
    /\ handle = "Grid" =>
          \A i, k \in 1..Len(events) :
              (/\ i # k
               /\ events[i].type = "REQUESTED_CALL"
               /\ events[k].type = "REQUESTED_CALL")
              => events[i].timestamp # events[k].timestamp
    /\ handle = "Batsim" =>
          \A i, k \in 1..Len(requests) :
              (/\ i # k
               /\ requests[i].type = "CALL_ME_LATER"
               /\ requests[k].type = "CALL_ME_LATER")
              => requests[i].data.at # requests[k].data.at

HandlerIndex(h) == CHOOSE i \in 1..Len(UserHandlers) : UserHandlers[i] = h

(* C10: the handlers of an event type are kept in the order they were
   registered, and the calls of a step are, for each dispatched event in
   turn, one call of each handler registered for its type, in that
   order, each with the timestamp and the data of the event. *)
C10_FanOut ==
    LET handlers(k) == callbacks[dispatched[k].type]
        off[k \in 0..Len(dispatched)] ==
            IF k = 0 THEN 0 ELSE off[k - 1] + Len(handlers(k))
    IN  /\ \A t \in EventType : \A i, k \in 1..Len(callbacks[t]) :
              (/\ i < k
               /\ callbacks[t][i] # "on_simulation_ends"
               /\ callbacks[t][k] # "on_simulation_ends")
              => HandlerIndex(callbacks[t][i]) < HandlerIndex(callbacks[t][k])
        /\ Len(calls) = off[Len(dispatched)]
        /\ \A k \in 1..Len(dispatched) : \A i \in 1..Len(handlers(k)) :
              calls[off[k - 1] + i]
                = <<handlers(k)[i], dispatched[k].timestamp, dispatched[k].data>>

C10_Witness ==
    /\ handle = "Grid"
    /\ Len(callbacks["JOB_COMPLETED"]) = 2
    /\ \E k \in 1..Len(dispatched) : dispatched[k].type = "JOB_COMPLETED"
    /\ Len(calls) >= 2

(* what is_running answers on the handle *)
Running == IF handle = "Grid" THEN is_running ELSE simulator # "None"

(* C11: on each handle start is a step only from a handle that is not
   running and leaves it running, advance is a step only on a running
   handle, a finish leaves the handle not running, and is_running changes
   only by these: to true by start, to false by finish or by an advance
   (one that finishes, or one that receives SIMULATION_ENDS); start is
   refused while running and advance while not running. *)
C11_OpenClose ==
    /\ [][/\ last'.op = "start" => (~Running /\ Running')
          /\ last'.op = "proceed_simulation" => Running
          /\ last'.op = "finish" => ~Running'
          /\ (~Running /\ Running') => last'.op = "start"
          /\ (Running /\ ~Running') =>
                last'.op \in {"finish", "proceed_simulation"}]_vars
    /\ [](Running => ~ENABLED (Grid_start \/ Batsim_start))
    /\ [](~Running =>
            ~ENABLED (Grid_proceed_simulation
                        \/ \E now \in ReplyTimes : \E reply \in Replies(now) :
                              Batsim_proceed_simulation(now, reply)))

C11_Witness ==
    /\ handle = "Batsim"
    /\ platform = "Platform"
    /\ last.op = "proceed_simulation"
    /\ simulator = "None"
    /\ \E i \in 1..Len(dispatched) : dispatched[i].type = "SIMULATION_ENDS"

(* C12: reject_job(id) of a pending job removes the id from the job table
   and, on the Grid handler, leaves a JOB_REJECTED event for the id queued
   or dispatched; on the Batsim handler it appends one REJECT_JOB request
   for the id, stamped with current_time, to the request buffer. *)
C12_RejectSemantics ==
    [][\A j \in JobIds :
         (vars' # vars /\ last'.op = "reject_job" /\ last'.job_ids = <<j>>) =>
            IF handle = "Grid"
            THEN /\ j \notin DOMAIN jobs'
                 /\ \E e \in Range(events') \cup Range(dispatched') :
                       e.type = "JOB_REJECTED" /\ e.data.job_ids = <<j>>
            ELSE /\ Len(requests') = Len(requests) + 1
                 /\ Count(RejectJobRequest(CurrentTime, j), requests')
                      = Count(RejectJobRequest(CurrentTime, j), requests) + 1]_vars

(* C13: on the Grid handler, once the JOB_COMPLETED event of a job was
   dispatched and no completion of the job is queued, kill_job for the job
   returns without an error and removes no event from the queue. *)
C13_KillAfterCompletion ==
    \A j \in JobIds :
        (/\ handle = "Grid"
         /\ policy = "jobs"
         /\ is_running
         /\ last.op = "proceed_simulation"
         /\ CompletedEvents(dispatched, j) # {}
         /\ CompletedEvents(events, j) = {}) =>
            ENABLED (/\ Grid_kill_job(<<j>>)
                     /\ last'.result = "ok"
                     /\ \A e \in Range(events) :
                           Count(e, events') >= Count(e, events))

(* C14: on both handlers an execute_job that succeeds has dispatched,
   when it returns, the JOB_STARTED event of the job, stamped with the
   current_time of the call and carrying the allocation, and on the Grid
   handler the job has left the job table. *)
C14_StartedImmediately ==
    [][\A j \in JobIds :
         (/\ vars' # vars
          /\ last'.op = "execute_job"
          /\ last'.result = "ok"
          /\ last'.job_ids = <<j>>) =>
            /\ InSeq(JobStartedEvent(CurrentTime, j, last'.res), dispatched')
            /\ handle = "Grid" => j \notin DOMAIN jobs']_vars

(* the positions of the batches sent in the calls w made on the network *)
Sends(w) == {i \in 1..Len(w) : w[i].op = "send"}

(* what every proceed_simulation of the Batsim handler does first: it sends
   the whole buffer as one batch stamped with current_time, leaves the
   buffer empty, then receives one reply whose time becomes current_time *)
SendThenReceive ==
    /\ Len(wire') >= 2
    /\ wire'[1] = Wire("send", CurrentTime, requests)
    /\ NonDecreasing(Timestamps_of(wire'[1].requests))
    /\ wire'[2].op = "recv"
    /\ {i \in 1..Len(wire') : wire'[i].op = "recv"} = {2}
    /\ wire'[2].now = floor(current_time')
    /\ requests' = <<>>

(* C15 as stated: each proceed_simulation of the Batsim handler sends
   exactly one batch, holding every request of the buffer in buffer order
   (by timestamp, ties in insertion order), leaves the buffer empty and
   only then receives one reply, whose time becomes current_time. *)
C15_OneBatch ==
    [][(vars' # vars /\ handle = "Batsim" /\ last'.op = "proceed_simulation") =>
          (SendThenReceive /\ Sends(wire') = {1})]_vars

(* C15, amended: each proceed_simulation of the Batsim handler first sends
   one batch holding the whole buffer in buffer order, leaves the buffer
   empty and only then receives one reply, whose time becomes current_time;
   a second batch is sent in the same call only after the reply, only when
   the reply holds SIMULATION_ENDS, and it is empty.  No other call sends a
   request, and a call that queues a request puts it behind the requests
   already in the buffer. *)
C15_RequestBatch ==
    [][(vars' # vars /\ handle = "Batsim") =>
          /\ last'.op = "proceed_simulation" =>
                /\ SendThenReceive
                /\ \A i \in Sends(wire') \ {1} :
                      /\ i > 2
                      /\ wire'[i].requests = <<>>
                      /\ \E k \in 1..Len(dispatched') :
                            dispatched'[k].type = "SIMULATION_ENDS"
          /\ last'.op # "proceed_simulation" =>
                \A i \in Sends(wire') : wire'[i].requests = <<>>
          /\ Len(requests') = Len(requests) + 1 =>
                /\ SubSeq(requests', 1, Len(requests)) = requests
                /\ NonDecreasing(Timestamps_of(requests'))]_vars

C15_Witness ==
    /\ handle = "Batsim"
    /\ last.op = "proceed_simulation"
    /\ Len(wire) >= 2
    /\ Len(wire[1].requests) = MaxQueue
    /\ wire[1].requests[1].type # wire[1].requests[2].type
    /\ wire[1].requests[1].timestamp = wire[1].requests[2].timestamp
    /\ Sends(wire) # {1}

(* the SET_RESOURCE_STATE requests of a buffer stamped t (ticks) *)
SetStateAt(reqs, t) ==
    {i \in 1..Len(reqs) :
        reqs[i].type = "SET_RESOURCE_STATE" /\ reqs[i].timestamp = t}

SetStateRequests(reqs) ==
    {reqs[i] : i \in {k \in 1..Len(reqs) : reqs[k].type = "SET_RESOURCE_STATE"}}

(* C16: the buffer of the Batsim handler never holds two SET_RESOURCE_STATE
   requests of one timestamp; a set_resources_pstate call leaves one such
   request for current_time, whose resource ids are those of the call
   united with those the request of that timestamp held before (none when
   there was no such request); and no other call changes the
   SET_RESOURCE_STATE requests of a buffer it does not empty.  Together:
   the request holds the union of the resources of all the calls made at
   its timestamp since the last batch. *)
C16_MergeUnion ==
    /\ [](handle = "Batsim" =>
            \A i \in 1..Len(requests) :
                Cardinality(SetStateAt(requests, requests[i].timestamp)) <= 1)
    /\ [][(vars' # vars /\ handle = "Batsim") =>
            IF last'.op = "set_resources_pstate"
            THEN LET t == Sec(CurrentTime)
                     old == SetStateAt(requests, t)
                     new == SetStateAt(requests', t)
                 IN  /\ Cardinality(new) = 1
                     /\ \A i \in new :
                           requests'[i].data.alloc =
                              last'.res \cup
                              UNION {requests[k].data.alloc : k \in old}
                     /\ \A u \in SetStateRequests(requests') :
                           u.timestamp # t => u \in SetStateRequests(requests)
            ELSE requests' # <<>> =>
                    SetStateRequests(requests') = SetStateRequests(requests)]_vars

C16_Witness ==
    /\ handle = "Batsim"
    /\ last.op = "set_resources_pstate"
    /\ last.res = {2}
    /\ Len(requests) = 1
    /\ requests[1].type = "SET_RESOURCE_STATE"
    /\ requests[1].data.alloc = {1, 2}

(* C17: a finish() of the Batsim handler called while the process is alive
   sends an empty batch (the acknowledgement), then waits for the process,
   kills it only after that, and closes the channel afterwards: no kill
   comes before the acknowledgement. *)
C17_TeardownOrder ==
    [][(/\ vars' # vars
        /\ handle = "Batsim"
        /\ simulator # "None"
        /\ last'.op = "finish") =>
          \E a, w, c \in 1..Len(wire') :
              /\ a < w /\ w < c
              /\ wire'[a].op = "send" /\ wire'[a].requests = <<>>
              /\ wire'[w].op = "wait"
              /\ wire'[c].op = "close"
              /\ \A k \in 1..Len(wire') :
                    wire'[k].op = "kill" => (w < k /\ k < c)]_vars

(* C18: on the Grid handler the JOB_COMPLETED and JOB_KILLED events naming
   a job that were dispatched never outnumber the JOB_STARTED events of
   the job dispatched before them (each execute_job queues one JOB_STARTED
   and one JOB_COMPLETED, which a kill_job replaces by one JOB_KILLED, so
   one end event more than starts is an end event dispatched before the
   JOB_STARTED of its execution, equal timestamps included); and an
   execute_job that succeeds queues one JOB_COMPLETED event of the job
   more, not several. *)
C18_StartedFirst ==
    /\ [](handle = "Grid" => \A j \in JobIds : run.open[j] >= 0)
    /\ [][(vars' # vars /\ handle = "Grid") =>
            \A j \in JobIds :
                (/\ last'.op = "execute_job"
                 /\ last'.result = "ok"
                 /\ last'.job_ids = <<j>>) =>
                    Cardinality(CompletedEvents(events', j))
                       = Cardinality(CompletedEvents(events, j)) + 1]_vars

(* C19: in every batch the Batsim handler sends, each SET_RESOURCE_STATE
   request carries, for every resource id it holds, the power state asked
   for that resource by the most recent set_resources_pstate call naming
   it since the batch before, calls with different power states at one
   current_time included. *)
C19_MergedTarget ==
    [][(vars' # vars /\ handle = "Batsim" /\ last'.op = "proceed_simulation") =>
          \A i \in 1..Len(wire'[1].requests) :
              LET req == wire'[1].requests[i]
              IN  req.type = "SET_RESOURCE_STATE" =>
                     \A r \in req.data.alloc : req.data.pstate = run.target[r]]_vars

(* C20: on the running Grid handler, once every queued event was
   dispatched, the last RESOURCE_POWER_STATE_CHANGED event dispatched for
   a resource carries the power state asked by the most recent
   set_resources_pstate call naming the resource, a call made while the
   final event of an earlier call was still queued included. *)
C20_LastRequestWins ==
    (handle = "Grid" /\ is_running /\ events = <<>>) =>
        \A r \in ResourceIds :
            run.target[r] # -1 => run.shown[r] = run.target[r]

====
